---- MODULE Spec2Model ----
(***************************************************************************)
(* Model of feishu_table_api.py: the FeishuAPI client.                      *)
(*                                                                         *)
(* State: the client's token cache and credentials, the wall clock, and    *)
(* for every caller its activation (position in the method it runs, the    *)
(* method's locals, the HTTP requests the method has issued so far and the *)
(* value or exception it ended with).  An HTTP round trip is two steps:    *)
(* the request is sent, and later the server's answer (or a transport      *)
(* failure) arrives; the clock may advance in between.                     *)
(***************************************************************************)
EXTENDS Integers, Sequences, FiniteSets, TLC

VARIABLES
    constructed,   \* FeishuAPI.__init__ has completed
    credentials,   \* <<self.app_id, self.app_secret>>
    cache,         \* self._token_cache
    now,           \* time.time()
    frame          \* per caller: the activation of the method it runs

vars == <<constructed, credentials, cache, now, frame>>

(* ------------------------------ bounds -------------------------------- *)
MaxTime == 600        \* the clock stops advancing here
MaxRows == 3          \* most rows of an input table / ids of a table read
MaxChunk == 2         \* largest explicit chunk_size
NumSerials == 2       \* distinct tokens a token endpoint hands out
NumCallers == 2       \* callers sharing the client in the concurrent specification

(* -------------------------- program constants ------------------------- *)
TOKEN_EXPIRY_BUFFER == 300
DefaultExpire == 7200
DefaultChunkSize == 1000

None == "None"
NaN == "NaN"
TokenTypes == {"app_token", "tenant_token"}
Callers == 1..NumCallers
\* the thread of the synchronous program
MainCaller == CHOOSE t \in Callers : \A u \in Callers : t <= u

Min(a, b) == IF a < b THEN a ELSE b

\* Python truthiness of an optional string
Truthy(x) == x \notin {None, ""}

\* dict.get(key, default) on a JSON object
Get(d, k, default) == IF k \in DOMAIN d THEN d[k] ELSE default

(* ----------------------- exception classes ---------------------------- *)
ErrorClasses ==
    {"Exception", "ValueError", "FeishuAPIError", "AuthenticationError", "APIRequestError"}

Parent_Flat(cls) ==
    CASE cls = "FeishuAPIError" -> "Exception"
      [] cls = "AuthenticationError" -> "Exception"
      [] cls = "APIRequestError" -> "FeishuAPIError"
      [] cls = "ValueError" -> "Exception"
      [] OTHER -> "object"

\* the base class in each class statement
Parent(cls) ==
    CASE cls = "FeishuAPIError" -> "Exception"
      [] cls = "AuthenticationError" -> "FeishuAPIError"
      [] cls = "APIRequestError" -> "FeishuAPIError"
      [] cls = "ValueError" -> "Exception"
      [] OTHER -> "object"

RECURSIVE IsSubclass(_, _)
IsSubclass(cls, base) ==
    IF cls = base THEN TRUE
    ELSE IF cls \notin ErrorClasses THEN FALSE
    ELSE IsSubclass(Parent(cls), base)

\* "except FeishuAPIError" catches the raised class
CaughtByBase(cls) == IsSubclass(cls, "FeishuAPIError")

(* ----------------------------- endpoints ------------------------------ *)
AppTokenEndpoint == "/auth/v3/app_access_token/internal"
TenantTokenEndpoint == "/auth/v3/tenant_access_token/internal"
UserEndpoint == "/contact/v3/users/batch_get_id"
CreateEndpoint == "/bitable/v1/apps/{app_token}/tables/{table_id}/records/batch_create"
DeleteEndpoint == "/bitable/v1/apps/{app_token}/tables/{table_id}/records/batch_delete"
RecordsEndpoint == "/bitable/v1/apps/{app_token}/tables/{table_id}/records"

TokenEndpoint(token_type) ==
    IF token_type = "app_token" THEN AppTokenEndpoint ELSE TenantTokenEndpoint

\* f"{token_type.split('_')[0]}_access_token"
TokenField(token_type) ==
    IF token_type = "app_token" THEN "app_access_token" ELSE "tenant_access_token"

\* token_type.replace('_', ' ')
KindName(token_type) ==
    IF token_type = "app_token" THEN "app token" ELSE "tenant token"

EndpointMap(operation) ==
    IF operation = "batch_create" THEN CreateEndpoint ELSE DeleteEndpoint

Request(method, endpoint, auth, body) ==
    [method |-> method, endpoint |-> endpoint, auth |-> auth, body |-> body]

(* --------------------------- the environment -------------------------- *)
\* tokens a token endpoint hands out in the field of its own kind
Issued(token_type) ==
    { (IF token_type = "app_token" THEN "a" ELSE "t") \o ToString(n) : n \in 1..NumSerials }

ExpireValues == {600}
TickSteps == {300}

\* bodies a token endpoint may answer with (HTTP 200, valid JSON)
TokenResponses(token_type) ==
    LET toks == {[code |-> 0] @@ (TokenField(token_type) :> tok) :
                     tok \in Issued(token_type) \cup {""}}
                \cup {[code |-> 99]}
    IN  toks \cup { r @@ ("expire" :> e) : r \in toks, e \in ExpireValues }

(* ------------------------------ token cache --------------------------- *)
InitialCache == [k \in TokenTypes |-> [token |-> None, expires_at |-> 0]]

IsCacheValid_WideBuffer(entry, current_time) ==
    Truthy(entry.token) /\ entry.expires_at > current_time + 2 * TOKEN_EXPIRY_BUFFER

\* the condition of the early return of _get_valid_token
IsCacheValid(entry, current_time) ==
    Truthy(entry.token) /\ entry.expires_at > current_time + TOKEN_EXPIRY_BUFFER

UpdateCache_OtherSlot(c, token_type, token, expires_at) ==
    [k \in TokenTypes |->
        IF k # token_type THEN [token |-> token, expires_at |-> expires_at] ELSE c[k]]

\* self._token_cache[token_type] = {'token': ..., 'expires_at': ...}
UpdateCache(c, token_type, token, expires_at) ==
    [c EXCEPT ![token_type] = [token |-> token, expires_at |-> expires_at]]

CacheAfterResponse_Unchecked(c, token_type, token, expires_at) ==
    UpdateCache(c, token_type, token, expires_at)

\* the cache once the token response is handled: the raise on a missing token
\* comes before the update
CacheAfterResponse(c, token_type, token, expires_at) ==
    IF Truthy(token) THEN UpdateCache(c, token_type, token, expires_at) ELSE c

NewExpiry_EntryTime(current_time, write_time, response) ==
    current_time + Get(response, "expire", DefaultExpire)

\* time.time() + response.get('expire', 7200); current_time is the clock read at entry
NewExpiry(current_time, write_time, response) ==
    write_time + Get(response, "expire", DefaultExpire)

(* ------------------------------ tables -------------------------------- *)
\* a DataFrame of n rows: an id column, a float column whose last value is
\* missing and an object column whose first value is missing
Table(n) ==
    [dtypes |-> [id |-> "O", amount |-> "f", name |-> "O"],
     rows |-> [k \in 1..n |->
                [id |-> ToString(k),
                 amount |-> IF k = n THEN NaN ELSE "1.5",
                 name |-> IF k = 1 THEN NaN ELSE "x"]]]

Tables(maxn) == { Table(n) : n \in 0..maxn }

\* x.where(pd.notnull(x), None) if x.dtype.kind in 'biufc' else x.fillna('')
SanitizeCell(dtype, v) ==
    IF v # NaN THEN v
    ELSE IF dtype \in {"b", "i", "u", "f", "c"} THEN None ELSE ""

\* _sanitize_data: a value-level transform of every row
Sanitize(table) ==
    [k \in 1..Len(table.rows) |->
        [c \in DOMAIN table.rows[k] |-> SanitizeCell(table.dtypes[c], table.rows[k][c])]]

Chunk_OffByOne(data, i, chunk_size) ==
    SubSeq(data, i + 1, Min(i + chunk_size, Len(data)) - 1)

\* data.iloc[i:i+chunk_size]
Chunk(data, i, chunk_size) ==
    SubSeq(data, i + 1, Min(i + chunk_size, Len(data)))

Records_Reversed(chunk) ==
    [j \in 1..Len(chunk) |-> [fields |-> chunk[Len(chunk) + 1 - j]]]

\* [{"fields": record} for record in chunk.to_dict("records")]
Records(chunk) == [j \in 1..Len(chunk) |-> [fields |-> chunk[j]]]

(* --------------------------- activations ------------------------------ *)
\* the record of one _get_valid_token invocation: its locals (type,
\* current_time) and what it observably did: the cache at entry and at exit,
\* the length of the caller's request log at entry (mark) and at its return
\* (endmark), the response it got and the clock when it ended
NoTokenCall ==
    [type |-> "app_token", current_time |-> 0, status |-> "none",
     before |-> InitialCache, after |-> InitialCache,
     mark |-> 0, endmark |-> 0, answered |-> FALSE, response |-> [code |-> 0], write_time |-> 0,
     ret |-> None]

\* a caller outside any method of the client
IdleFrame ==
    [pc |-> "idle", op |-> "none", args |-> <<"", "">>, next |-> "none",
     tk |-> NoTokenCall,
     calls |-> <<>>, payload |-> <<>>, table |-> Table(0), data |-> <<>>,
     operation |-> "none", chunk_size |-> 0, i |-> 0, results |-> <<>>,
     ids |-> <<>>, outcome |-> "none", ret |-> None, err |-> "none", msg |-> ""]

\* entry into method op
Enter(op) == [IdleFrame EXCEPT !.op = op]

\* entry into method op with two string arguments
EnterWith(op, a, b) == [IdleFrame EXCEPT !.op = op, !.args = <<a, b>>]

\* raise cls(msg): the exception leaves the method the caller invoked
Raise(f, cls, msg) ==
    [f EXCEPT !.pc = "done", !.outcome = "raised", !.err = cls, !.msg = msg]

\* return value from the method the caller invoked (a batch method returns its
\* results list, kept in the field results)
Return(f, value) ==
    [f EXCEPT !.pc = "done", !.outcome = "returned", !.ret = value]

\* self._request(...) up to the point where the request is on the wire
Send(f, request, pc) ==
    [f EXCEPT !.pc = pc, !.calls = Append(@, request)]

\* the request of the current chunk of _batch_table_operation
BatchRequest(f, token) ==
    Request("POST", EndpointMap(f.operation), token,
            Records(Chunk(f.data, f.i, f.chunk_size)))

\* get_table_data: the read of the table's records
SendRead(f, token) ==
    Send(f, Request("GET", RecordsEndpoint, token, <<>>), "read_wait")

\* the expression that asked for the token goes on with it
Resume(f, token) ==
    CASE f.next = "return" -> Return(f, token)
      [] f.next = "user" ->
            Send(f, Request("POST", UserEndpoint, token, f.payload), "user_wait")
      [] f.next = "read" -> SendRead(f, token)
      [] f.next = "batch" -> Send(f, BatchRequest(f, token), "batch_wait")

OnRequestError_Retry(f) ==
    LET last == f.calls[Len(f.calls)]
    IN  IF Len(f.calls) >= 2 /\ f.calls[Len(f.calls) - 1] = last
        THEN Raise(f, "APIRequestError", "Request failed")
        ELSE [f EXCEPT !.calls = Append(@, last)]

\* _request: a RequestException or a JSONDecodeError becomes an APIRequestError
OnRequestError(f) == Raise(f, "APIRequestError", "Request failed")

\* the step of range(0, len(data), chunk_size)
NextOffset(i, chunk_size) == i + chunk_size

RowCountOk_AtMostOne(table) == Len(table.rows) <= 1

\* len(data) == 1
RowCountOk(table) == Len(table.rows) = 1

\* evaluation reaches self.app_access_token / self.tenant_access_token
WantToken(f, token_type, next) ==
    [f EXCEPT !.pc = "get_valid_token", !.next = next,
              !.tk = [NoTokenCall EXCEPT !.type = token_type, !.mark = Len(f.calls)]]

\* _batch_table_operation up to its first request
StartBatch(f, table, operation, chunk_size) ==
    LET g == [f EXCEPT !.table = table, !.data = Sanitize(table),
                       !.operation = operation, !.chunk_size = chunk_size,
                       !.i = 0, !.results = <<>>]
    IN  IF Len(g.data) = 0
        THEN Return(g, None)
        ELSE WantToken(g, "app_token", "batch")

(* ------------------------------- Init --------------------------------- *)
Init ==
    /\ constructed = FALSE
    /\ credentials = <<"", "">>
    /\ cache = InitialCache
    /\ now = 0
    /\ frame = [t \in Callers |-> IdleFrame]

(* ------------------------------ actions ------------------------------- *)
\* FeishuAPI(app_id, app_secret)
Construct(t, app_id, app_secret) ==
    /\ ~constructed
    /\ frame[t].pc = "idle"
    /\ IF app_id = "" \/ app_secret = ""
       THEN /\ frame' = [frame EXCEPT ![t] =
                   Raise(EnterWith("__init__", app_id, app_secret), "ValueError",
                         "app_id and app_secret must be provided")]
            /\ UNCHANGED <<constructed, credentials, cache>>
       ELSE /\ constructed' = TRUE
            /\ credentials' = <<app_id, app_secret>>
            /\ cache' = InitialCache
            /\ frame' = [frame EXCEPT ![t] =
                   Return(EnterWith("__init__", app_id, app_secret), None)]
    /\ UNCHANGED now

\* the properties app_access_token and tenant_access_token, read by a caller
AccessToken(t, token_type) ==
    /\ constructed
    /\ frame[t].pc = "idle"
    /\ frame' = [frame EXCEPT ![t] =
                    WantToken(Enter(TokenField(token_type)), token_type, "return")]
    /\ UNCHANGED <<constructed, credentials, cache, now>>

\* _get_valid_token up to its return on a cache hit, or to its token request
GetValidToken(t) ==
    LET f == frame[t]
        entry == cache[f.tk.type]
        tk1 == [f.tk EXCEPT !.current_time = now, !.before = cache]
    IN  /\ f.pc = "get_valid_token"
        /\ IF IsCacheValid(entry, now)
           THEN frame' = [frame EXCEPT ![t] =
                    Resume([f EXCEPT !.tk = [tk1 EXCEPT !.status = "hit",
                                 !.after = cache, !.write_time = now,
                                 !.endmark = Len(f.calls), !.ret = entry.token]],
                           entry.token)]
           ELSE frame' = [frame EXCEPT ![t] =
                    Send([f EXCEPT !.tk = [tk1 EXCEPT !.status = "running"]],
                         Request("POST", TokenEndpoint(f.tk.type), None, credentials),
                         "token_wait")]
        /\ UNCHANGED <<constructed, credentials, cache, now>>

\* the token request fails: requests raises, or the status is not 2xx, or the
\* body is not JSON
TokenRequestFails(t) ==
    LET f == frame[t]
    IN  /\ f.pc = "token_wait"
        /\ frame' = [frame EXCEPT ![t] =
                OnRequestError([f EXCEPT !.tk = [@ EXCEPT !.status = "failed",
                                   !.after = cache, !.write_time = now]])]
        /\ UNCHANGED <<constructed, credentials, cache, now>>

\* the token endpoint answers; the rest of _get_valid_token
TokenResponse(t, response) ==
    LET f == frame[t]
        token == Get(response, TokenField(f.tk.type), None)
        cache1 == CacheAfterResponse(cache, f.tk.type, token,
                                     NewExpiry(f.tk.current_time, now, response))
        tk1 == [f.tk EXCEPT !.answered = TRUE, !.response = response,
                            !.after = cache1, !.write_time = now,
                            !.endmark = Len(f.calls)]
    IN  /\ f.pc = "token_wait"
        /\ cache' = cache1
        /\ IF ~Truthy(token)
           THEN frame' = [frame EXCEPT ![t] =
                    Raise([f EXCEPT !.tk = [tk1 EXCEPT !.status = "failed"]],
                          "AuthenticationError", "Failed to get " \o KindName(f.tk.type))]
           ELSE frame' = [frame EXCEPT ![t] =
                    Resume([f EXCEPT !.tk = [tk1 EXCEPT !.status = "refreshed",
                                                        !.ret = token]],
                           token)]
        /\ UNCHANGED <<constructed, credentials, now>>

\* time passes
Tick(d) ==
    /\ now + d <= MaxTime
    /\ now' = now + d
    /\ UNCHANGED <<constructed, credentials, cache, frame>>

\* the data request in flight fails in _request
RequestFails(t) ==
    LET f == frame[t]
    IN  /\ f.pc \in {"user_wait", "read_wait", "batch_wait"}
        /\ frame' = [frame EXCEPT ![t] = OnRequestError(f)]
        /\ UNCHANGED <<constructed, credentials, cache, now>>

\* get_user_id(email, phone) up to the token it needs
GetUserId(t, email, phone) ==
    /\ constructed
    /\ frame[t].pc = "idle"
    /\ IF email = "" /\ phone = ""
       THEN frame' = [frame EXCEPT ![t] =
                Raise(EnterWith("get_user_id", email, phone), "ValueError",
                      "Either email or phone must be provided")]
       ELSE frame' = [frame EXCEPT ![t] =
                WantToken([EnterWith("get_user_id", email, phone) EXCEPT !.payload =
                              [emails |-> IF email # "" THEN <<email>> ELSE <<>>,
                               mobiles |-> IF phone # "" THEN <<phone>> ELSE <<>>]],
                          "app_token", "user")]
    /\ UNCHANGED <<constructed, credentials, cache, now>>

\* answers of the user lookup endpoint
UserResponses ==
    { [code |-> 0],
      [code |-> 0, data |-> [user_list |-> <<>>]],
      [code |-> 0, data |-> [user_list |-> <<[user_id |-> "u1"]>>]],
      [code |-> 0, data |-> [user_list |-> <<[user_id |-> "u2"], [user_id |-> "u1"]>>]] }

\* the lookup endpoint answers; the rest of get_user_id
UserResponse(t, response) ==
    LET f == frame[t]
        user_list == Get(Get(response, "data", [code |-> 0]), "user_list", <<>>)
    IN  /\ f.pc = "user_wait"
        /\ frame' = [frame EXCEPT ![t] =
                IF Len(user_list) > 0
                THEN Return(f, user_list[1].user_id)
                ELSE Raise(f, "APIRequestError",
                           "User not found or insufficient permissions")]
        /\ UNCHANGED <<constructed, credentials, cache, now>>

\* insert_data_to_table(app_token, table_id, data)
InsertDataToTable(t, table) ==
    /\ constructed
    /\ frame[t].pc = "idle"
    /\ IF ~RowCountOk(table)
       THEN frame' = [frame EXCEPT ![t] =
                Raise([Enter("insert_data_to_table") EXCEPT !.table = table],
                      "ValueError", "DataFrame must contain exactly one row")]
       ELSE frame' = [frame EXCEPT ![t] =
                StartBatch(Enter("insert_data_to_table"), table, "batch_create",
                           DefaultChunkSize)]
    /\ UNCHANGED <<constructed, credentials, cache, now>>

\* insert_multi_data_to_table(app_token, table_id, data, chunk_size)
InsertMultiDataToTable(t, table, chunk_size) ==
    /\ constructed
    /\ frame[t].pc = "idle"
    /\ frame' = [frame EXCEPT ![t] =
            StartBatch(Enter("insert_multi_data_to_table"), table, "batch_create",
                       chunk_size)]
    /\ UNCHANGED <<constructed, credentials, cache, now>>

\* a chunk's request is answered: results.append(response) and the next turn
\* of the loop of _batch_table_operation (the progress line it prints is not
\* part of the state)
BatchResponse(t) ==
    LET f == frame[t]
        response == [code |-> 0, data |-> f.calls[Len(f.calls)].body]
        g == [f EXCEPT !.results = Append(@, response),
                       !.i = NextOffset(@, f.chunk_size)]
    IN  /\ f.pc = "batch_wait"
        /\ frame' = [frame EXCEPT ![t] =
                IF g.i < Len(g.data)
                THEN WantToken(g, "app_token", "batch")
                ELSE Return(g, None)]
        /\ UNCHANGED <<constructed, credentials, cache, now>>

\* delete_all_records(app_token, table_id) up to the token of its read
DeleteAllRecords(t) ==
    /\ constructed
    /\ frame[t].pc = "idle"
    /\ frame' = [frame EXCEPT ![t] =
            WantToken(Enter("delete_all_records"), "app_token", "read")]
    /\ UNCHANGED <<constructed, credentials, cache, now>>

\* record identifiers a table read may return
IdLists(maxn) ==
    UNION { { [k \in 1..n |-> ToString(k)], [k \in 1..n |-> ToString(n + 1 - k)] } :
            n \in 0..maxn }

\* the DataFrame _batch_delete_records makes of the identifiers
IdTable(ids) ==
    [dtypes |-> [record_id |-> "O"],
     rows |-> [k \in 1..Len(ids) |-> [record_id |-> ids[k]]]]

\* get_table_data returns the identifiers; _batch_delete_records hands them to
\* _batch_table_operation
ReadResponse(t, ids, chunk_size) ==
    LET f == frame[t]
    IN  /\ f.pc = "read_wait"
        /\ frame' = [frame EXCEPT ![t] =
                StartBatch([f EXCEPT !.ids = ids], IdTable(ids), "batch_delete",
                           chunk_size)]
        /\ UNCHANGED <<constructed, credentials, cache, now>>

\* the caller has taken the result, or handled the exception
Finish(t) ==
    /\ frame[t].pc = "done"
    /\ frame' = [frame EXCEPT ![t] = IdleFrame]
    /\ UNCHANGED <<constructed, credentials, cache, now>>

(* --------------------------- specifications --------------------------- *)
AppIds == {"", "cli_a"}
AppSecrets == {"", "s3cret"}
Emails == {"", "a@b.c"}
Phones == {"", "555"}
ChunkSizes == 1..MaxChunk

\* what one caller can do
Step(t) ==
    \/ \E a \in AppIds, s \in AppSecrets : Construct(t, a, s)
    \/ \E k \in TokenTypes : AccessToken(t, k)
    \/ GetValidToken(t)
    \/ TokenRequestFails(t)
    \/ \E r \in TokenResponses(frame[t].tk.type) : TokenResponse(t, r)
    \/ \E e \in Emails, p \in Phones : GetUserId(t, e, p)
    \/ \E r \in UserResponses : UserResponse(t, r)
    \/ \E tb \in Tables(MaxRows) : InsertDataToTable(t, tb)
    \/ \E tb \in Tables(MaxRows), c \in ChunkSizes : InsertMultiDataToTable(t, tb, c)
    \/ BatchResponse(t)
    \/ DeleteAllRecords(t)
    \/ \E ids \in IdLists(MaxRows), c \in ChunkSizes \cup {DefaultChunkSize} :
          ReadResponse(t, ids, c)
    \/ RequestFails(t)
    \/ Finish(t)

\* the synchronous program: one caller
Next ==
    \/ Step(MainCaller)
    \/ \E d \in TickSteps : Tick(d)

Spec == Init /\ [][Next]_vars

\* one caller reading the app token
TokenStep(t) ==
    \/ \E a \in AppIds, s \in AppSecrets : Construct(t, a, s)
    \/ AccessToken(t, "app_token")
    \/ GetValidToken(t)
    \/ TokenRequestFails(t)
    \/ \E r \in TokenResponses(frame[t].tk.type) : TokenResponse(t, r)
    \/ Finish(t)

\* several callers (threads) share the client and read its app_access_token
NextConc ==
    \/ \E t \in Callers : TokenStep(t)
    \/ \E d \in TickSteps : Tick(d)

SpecConc == Init /\ [][NextConc]_vars

(* ------------------------------ properties ---------------------------- *)
TokenOps == {"app_access_token", "tenant_access_token"}
TokenEndpoints == {AppTokenEndpoint, TenantTokenEndpoint}

\* a cache entry holds a token that is good for more than 5 minutes after time t
Fresh(entry, t) == entry.token \notin {None, ""} /\ entry.expires_at > t + 300

\* the one request a refresh of the kind sends
RefreshRequest(token_type) ==
    [method |-> "POST",
     endpoint |-> IF token_type = "app_token" THEN "/auth/v3/app_access_token/internal"
                  ELSE "/auth/v3/tenant_access_token/internal",
     auth |-> None, body |-> credentials]

\* the requests the activation's latest _get_valid_token call has sent
InvocationCalls(f) ==
    SubSeq(f.calls, f.tk.mark + 1,
           IF f.tk.status \in {"hit", "refreshed"} THEN f.tk.endmark ELSE Len(f.calls))

\* the requests of an activation that did not go to a token endpoint
DataCalls(f) == SelectSeq(f.calls, LAMBDA r : r.endpoint \notin TokenEndpoints)
\* the record requests of a batch operation
BatchCalls(f) == SelectSeq(f.calls, LAMBDA r : r.endpoint \in {CreateEndpoint, DeleteEndpoint})

CeilDiv(n, c) == (n + c - 1) \div c

\* the records of the k-th chunk of c rows of an input table
ExpectedChunk(table, k, c) ==
    LET n == Len(table.rows)
        first == (k - 1) * c + 1
        last == IF k * c < n THEN k * c ELSE n
    IN  [j \in 1..(last - first + 1) |-> [fields |-> Sanitize(table)[first + j - 1]]]

\* C1: a _get_valid_token call that finds its kind's entry holding a non-empty
\* token with expires_at > now + 300 returns that token, sends no request and
\* leaves both cache entries as they were.
C1_CacheHit ==
    \A t \in Callers :
        LET f == frame[t]
            tk == f.tk
        IN  (tk.status # "none" /\ Fresh(tk.before[tk.type], tk.current_time)) =>
                /\ tk.status = "hit"
                /\ tk.ret = tk.before[tk.type].token
                /\ InvocationCalls(f) = <<>>
                /\ tk.after = tk.before
                /\ (f.op \in TokenOps =>
                        /\ f.pc = "done" /\ f.outcome = "returned"
                        /\ f.ret = tk.before[tk.type].token
                        /\ f.calls = <<>>)

C1_Witness ==
    \E t \in Callers :
        /\ frame[t].pc = "done" /\ frame[t].op = "tenant_access_token"
        /\ frame[t].tk.status = "hit" /\ frame[t].ret \in Issued("tenant_token")
        /\ cache["tenant_token"].expires_at = now + 600

\* C2: a _get_valid_token call that finds no token, or expires_at <= now + 300,
\* sends exactly one POST to its kind's token endpoint; when it succeeds it
\* returns the response's token and the entry then holds that token with
\* expires_at = (time of the update) + expire, or + 7200 without an expire field.
C2_CacheMiss ==
    \A t \in Callers :
        LET f == frame[t]
            tk == f.tk
            field == IF tk.type = "app_token" THEN "app_access_token"
                     ELSE "tenant_access_token"
        IN  (tk.status # "none" /\ ~Fresh(tk.before[tk.type], tk.current_time)) =>
                /\ tk.status # "hit"
                /\ InvocationCalls(f) = <<RefreshRequest(tk.type)>>
                /\ f.op \in TokenOps => f.calls = <<RefreshRequest(tk.type)>>
                /\ tk.status = "refreshed" =>
                        /\ field \in DOMAIN tk.response
                        /\ tk.ret = tk.response[field]
                        /\ tk.after[tk.type].token = tk.ret
                        /\ tk.after[tk.type].expires_at =
                              tk.write_time + (IF "expire" \in DOMAIN tk.response
                                               THEN tk.response.expire ELSE 7200)
                        /\ (f.op \in TokenOps =>
                                f.pc = "done" /\ f.outcome = "returned" /\ f.ret = tk.ret)

C2_Witness ==
    \E t \in Callers :
        LET tk == frame[t].tk
        IN  /\ frame[t].pc = "done" /\ frame[t].op = "app_access_token"
            /\ tk.status = "refreshed"
            /\ tk.before["app_token"].token \in Issued("app_token")
            /\ tk.before["app_token"].expires_at = tk.current_time + 300
            /\ tk.ret # tk.before["app_token"].token
            /\ "expire" \notin DOMAIN tk.response
            /\ tk.write_time > tk.current_time
            /\ cache["app_token"] = [token |-> tk.ret, expires_at |-> tk.write_time + 7200]

\* C3: a batch operation that returns has sent ceil(n/c) record requests, the
\* k-th carrying rows (k-1)c+1 .. min(kc, n) in row order, and returns one
\* response per chunk in chunk order.
C3_Chunking ==
    \A t \in Callers :
        LET f == frame[t]
            n == Len(f.table.rows)
            reqs == BatchCalls(f)
        IN  (f.pc = "done" /\ f.outcome = "returned" /\ f.operation # "none") =>
                /\ f.chunk_size >= 1
                /\ Len(reqs) = CeilDiv(n, f.chunk_size)
                /\ \A k \in 1..Len(reqs) :
                        /\ reqs[k].body = ExpectedChunk(f.table, k, f.chunk_size)
                        /\ k < Len(reqs) => Len(reqs[k].body) = f.chunk_size
                /\ Len(f.results) = Len(reqs)
                /\ \A k \in 1..Len(reqs) : f.results[k].data = reqs[k].body

C3_Witness ==
    \E t \in Callers :
        LET f == frame[t]
        IN  /\ f.pc = "done" /\ f.outcome = "returned"
            /\ f.op = "insert_multi_data_to_table"
            /\ Len(f.table.rows) = 3 /\ f.chunk_size = 2
            /\ Len(BatchCalls(f)) = 2 /\ Len(f.results) = 2
            /\ Len(BatchCalls(f)[2].body) = 1

\* the input of a finished activation breaks the method's precondition
InvalidInput(f) ==
    \/ f.op = "__init__" /\ (f.args[1] = "" \/ f.args[2] = "")
    \/ f.op = "get_user_id" /\ f.args[1] = "" /\ f.args[2] = ""
    \/ f.op = "insert_data_to_table" /\ Len(f.table.rows) # 1

\* C4: construction without an id or a secret, get_user_id without email and
\* phone, and insert_data_to_table with a row count other than 1 fail with the
\* validation error in the step of the call itself: no request is sent and
\* the token cache stays as it was.
C4_ValidationFirst ==
    [][\A t \in Callers :
          LET f == frame'[t]
          IN  (frame[t].pc = "idle" /\ f.pc # "idle" /\ InvalidInput(f)) =>
                  /\ f.pc = "done" /\ f.outcome = "raised"
                  /\ f.err = "ValueError"
                  /\ f.calls = <<>>
                  /\ cache' = cache
                  /\ constructed' = constructed]_vars

C4_Witness ==
    \E t \in Callers :
        LET f == frame[t]
        IN  /\ f.pc = "done" /\ f.op = "insert_data_to_table"
            /\ Len(f.table.rows) = 2 /\ f.err = "ValueError" /\ f.calls = <<>>
            /\ cache["app_token"].token \in Issued("app_token")

RaisedKinds == {"ValueError", "AuthenticationError", "APIRequestError"}

\* C5 as stated: every error raised is one of the three kinds and all of them
\* derive from the base API error, so "except FeishuAPIError" handles every
\* failure.
C5_AllDeriveFromBase ==
    \A t \in Callers :
        frame[t].outcome = "raised" =>
            frame[t].err \in RaisedKinds /\ CaughtByBase(frame[t].err)

\* C5 amended: every error raised is one of the three kinds; Authentication
\* and Request errors derive from the base API error, the validation error
\* (ValueError) does not; validation errors are raised exactly for the
\* invalid inputs, so a handler of the base API error handles every failure
\* but those.
C5_Hierarchy ==
    \A t \in Callers :
        LET f == frame[t]
        IN  f.outcome = "raised" =>
                /\ f.err \in RaisedKinds
                /\ CaughtByBase(f.err) <=> f.err \in {"AuthenticationError", "APIRequestError"}
                /\ f.err = "ValueError" <=> InvalidInput(f)
                /\ ~IsSubclass("ValueError", "FeishuAPIError")
                /\ IsSubclass(f.err, "Exception")

C5_Witness ==
    \E t \in Callers :
        LET f == frame[t]
        IN  /\ f.op = "get_user_id" /\ f.outcome = "raised"
            /\ f.err = "AuthenticationError" /\ CaughtByBase(f.err)
            /\ ~CaughtByBase("ValueError")

RECURSIVE Flatten(_)
\* the record identifiers of a sequence of delete requests, in order
Flatten(reqs) ==
    IF reqs = <<>> THEN <<>>
    ELSE [j \in 1..Len(Head(reqs).body) |-> Head(reqs).body[j].fields.record_id]
         \o Flatten(Tail(reqs))

\* C7: delete_all_records sends its read before any delete request, sends
\* nothing but delete requests after it, and when it returns the delete
\* requests carry exactly the identifiers the read returned, each once, in
\* the order of the read.
C7_DeleteAll ==
    \A t \in Callers :
        LET f == frame[t]
            reqs == DataCalls(f)
            sent == Flatten(IF reqs = <<>> THEN <<>> ELSE Tail(reqs))
        IN  f.op = "delete_all_records" =>
                /\ reqs # <<>> =>
                      /\ reqs[1].method = "GET" /\ reqs[1].endpoint = RecordsEndpoint
                      /\ \A k \in 2..Len(reqs) :
                            reqs[k].method = "POST" /\ reqs[k].endpoint = DeleteEndpoint
                /\ sent = SubSeq(f.ids, 1, Len(sent))
                /\ (f.pc = "done" /\ f.outcome = "returned") =>
                      /\ reqs # <<>>
                      /\ sent = f.ids

C7_Witness ==
    \E t \in Callers :
        LET f == frame[t]
        IN  /\ f.pc = "done" /\ f.outcome = "returned" /\ f.op = "delete_all_records"
            /\ f.ids = <<"3", "2", "1">> /\ f.chunk_size = 2
            /\ Len(DataCalls(f)) = 3

\* the cache has one entry per kind, each empty or holding a token its own
\* kind's endpoint issued, and a token call returns such a token
SlotsApart ==
    /\ DOMAIN cache = {"app_token", "tenant_token"}
    /\ \A k \in DOMAIN cache : cache[k].token \in Issued(k) \cup {None}
    /\ \A t \in Callers :
          frame[t].tk.status \in {"hit", "refreshed"} =>
              frame[t].tk.ret \in Issued(frame[t].tk.type)

\* an entry changes only in the step that ends a successful refresh of its kind
OwnRefreshOnly ==
    \A k \in TokenTypes :
        cache'[k] # cache[k] =>
            \E t \in Callers :
                /\ frame[t].pc = "token_wait" /\ frame[t].tk.type = k
                /\ frame'[t].tk.status = "refreshed"
                /\ cache'[k].token = frame'[t].tk.ret

\* C8: the cache always has exactly the two entries app and tenant; an entry
\* changes only by a successful refresh of its own kind, whatever the
\* operations; the token of a kind is one its own endpoint issued.
C8_SlotIsolation == []SlotsApart /\ [][OwnRefreshOnly]_vars

C8_Witness ==
    /\ cache["app_token"].token \in Issued("app_token")
    /\ cache["tenant_token"].token \in Issued("tenant_token")
    /\ cache["app_token"].expires_at # cache["tenant_token"].expires_at
    /\ \E t \in Callers :
          /\ frame[t].tk.status = "refreshed" /\ frame[t].tk.type = "tenant_token"
          /\ frame[t].tk.before["app_token"] = cache["app_token"]
          /\ frame[t].tk.before["tenant_token"].token \in Issued("tenant_token")

\* C9: a batch operation that ends with an error after k-1 answered chunks
\* has sent chunks 1..k-1 once each, at most the request of chunk k after
\* them and nothing later, has sent no other record request, and raises
\* instead of returning its partial results.
C9_NoRollback ==
    \A t \in Callers :
        LET f == frame[t]
            reqs == BatchCalls(f)
            done == Len(f.results)
        IN  (f.operation # "none" /\ f.outcome = "raised") =>
                /\ f.pc = "done"
                /\ f.err \in {"AuthenticationError", "APIRequestError"}
                /\ Len(reqs) \in {done, done + 1}
                /\ done < CeilDiv(Len(f.table.rows), f.chunk_size)
                /\ \A k \in 1..Len(reqs) :
                      /\ reqs[k].method = "POST"
                      /\ reqs[k].endpoint =
                            (IF f.op = "delete_all_records" THEN DeleteEndpoint
                             ELSE CreateEndpoint)
                      /\ reqs[k].body = ExpectedChunk(f.table, k, f.chunk_size)
                /\ \A k \in 1..done : f.results[k].data = reqs[k].body
                /\ Len(reqs) = done => f.tk.status = "failed"
                /\ Len(reqs) = done + 1 => f.calls[Len(f.calls)] = reqs[Len(reqs)]

C9_Witness ==
    \E t \in Callers :
        LET f == frame[t]
        IN  /\ f.op = "insert_multi_data_to_table" /\ f.outcome = "raised"
            /\ Len(f.table.rows) = 3 /\ f.chunk_size = 1
            /\ Len(f.results) = 1 /\ Len(BatchCalls(f)) = 2

\* the callers whose refresh request of the kind is in flight
InFlight(k) == { t \in Callers : frame[t].pc = "token_wait" /\ frame[t].tk.type = k }

\* C10: at most one refresh request per token kind is in flight at any time.
C10_SingleFlight == \A k \in TokenTypes : Cardinality(InFlight(k)) <= 1

====
